---- MODULE Spec2Model ----
(***************************************************************************)
(* Model of the HR report generator: the Employee class hierarchy of       *)
(* employee.py (identity counter, validating property setters, variant     *)
(* constructors, __repr__) and the roster operations of gui.py             *)
(* (MainWindow.load_file, MainWindow.save_file, the forms'                 *)
(* update_employee).                                                       *)
(*                                                                         *)
(* Text is a sequence of tokens.  A token is one character (a letter, a    *)
(* comma, a space, a double quote) or one indivisible word: "D" is the     *)
(* string "@acme-machining.com", "p" is "./images/placeholder.png", "d" a  *)
(* date such as "2023-01-01", and the class names, enum member names and   *)
(* numeric literals are words too.                                         *)
(*                                                                         *)
(* A float is a record [nan, c]: c is the value in hundredths; nan marks   *)
(* the IEEE not-a-number, for which every ordered comparison is false.     *)
(***************************************************************************)
EXTENDS Integers, Sequences, FiniteSets, TLC

\* ------------------------------------------------------------------ bounds
MaxLines  == 2   \* lines of the data file the session starts with
MaxRoster == 4   \* load_file is not explored past this many roster entries
MaxEvents == 1   \* form updates and failing writes explored per session

\* ------------------------------------------------------------------ floats
F(c) == [nan |-> FALSE, c |-> c]
NaN  == [nan |-> TRUE, c |-> 0]

FloatLt(a, b) == ~a.nan /\ ~b.nan /\ a.c < b.c
FloatGt(a, b) == ~a.nan /\ ~b.nan /\ a.c > b.c
FloatGe(a, b) == ~a.nan /\ ~b.nan /\ a.c >= b.c
FloatLe(a, b) == ~a.nan /\ ~b.nan /\ a.c <= b.c
FloatEq(a, b) == ~a.nan /\ ~b.nan /\ a.c = b.c

\* the literals the comparisons of employee.py use
MinYearly == F(5000000)
MinHourly == F(1500)
MaxHourly == F(9999)

\* float(text) of a word: the value, for the words that are float literals
FloatLiterals ==
  { <<"49999.99", F(4999999)>>, <<"50000.0", F(5000000)>>, <<"50000", F(5000000)>>,
    <<"14.99", F(1499)>>, <<"15.0", F(1500)>>, <<"15", F(1500)>>,
    <<"99.99", F(9999)>>, <<"100.0", F(10000)>>, <<"nan", NaN>>,
    <<"1", F(100)>>, <<"4", F(400)>>, <<"6", F(600)>> }

\* int(text) of a word: the value, for the words that are integer literals
IntLiterals == { <<"1", 1>>, <<"4", 4>>, <<"6", 6>>, <<"50000", 50000>>, <<"15", 15>> }

\* str(x) of a float: Python's shortest repr, always with a fractional part
StrFloat(x) ==
  IF x.nan THEN "nan"
  ELSE CASE x.c = 4999999 -> "49999.99"
         [] x.c = 5000000 -> "50000.0"
         [] x.c = 1499    -> "14.99"
         [] x.c = 1500    -> "15.0"
         [] x.c = 9999    -> "99.99"
         [] x.c = 10000   -> "100.0"
         [] x.c = 100     -> "1.0"
         [] x.c = 400     -> "4.0"
         [] x.c = 600     -> "6.0"

\* str.strip(): float() and int() ignore leading and trailing whitespace
RECURSIVE LStrip(_)
LStrip(s) == IF s # <<>> /\ Head(s) = " " THEN LStrip(Tail(s)) ELSE s

RECURSIVE RStrip(_)
RStrip(s) ==
  IF s # <<>> /\ s[Len(s)] = " " THEN RStrip(SubSeq(s, 1, Len(s) - 1)) ELSE s

Strip(s) == RStrip(LStrip(s))

\* float(s): [ok, val]; not ok is ValueError
ParseFloat(s) ==
  LET t == Strip(s)
      m == IF Len(t) = 1 THEN {l \in FloatLiterals : l[1] = t[1]} ELSE {}
  IN IF m = {} THEN [ok |-> FALSE, val |-> NaN]
     ELSE [ok |-> TRUE, val |-> (CHOOSE l \in m : TRUE)[2]]

\* int(s): [ok, val]; not ok is ValueError
ParseInt(s) ==
  LET t == Strip(s)
      m == IF Len(t) = 1 THEN {l \in IntLiterals : l[1] = t[1]} ELSE {}
  IN IF m = {} THEN [ok |-> FALSE, val |-> 0]
     ELSE [ok |-> TRUE, val |-> (CHOOSE l \in m : TRUE)[2]]

\* ------------------------------------------------------------- employee.py
\* Role and Department: member value -> member name
Role == { <<1, "CEO">>, <<2, "CFO">>, <<3, "COO">> }

Department ==
  { <<1, "ACCOUNTING">>, <<2, "FINANCE">>, <<3, "HR">>, <<4, "R_AND_D">>,
    <<5, "MACHINING">> }

EnumValues(enum) == {m[1] : m \in enum}
EnumName(enum, v) == (CHOOSE m \in enum : m[1] = v)[2]

IMAGE_PLACEHOLDER == <<"p">>

\* the outcome of a call on an object: the object as the call leaves it, the
\* class of the exception it raised ("" when it returned normally) and the
\* exception's message
Return(self) == [err |-> "", msg |-> <<>>, obj |-> self]
Raise(e, msg, self) == [err |-> e, msg |-> msg, obj |-> self]

\* self.<attr> = v on an instance __dict__
SetAttr(self, attr, v) == [a \in DOMAIN self \cup {attr} |-> IF a = attr THEN v ELSE self[a]]

\* @name.setter
name_setter(self, name) ==
  IF name = <<>> THEN Raise("ValueError", <<"Name cannot be blank">>, self)
  ELSE Return(SetAttr(self, "name", name))

\* "@acme-machining.com" in email
HasDomain(email) == \E i \in 1..Len(email) : email[i] = "D"

\* the email setter with the assignment made before the checks
email_setter_assign_first(self, email) ==
  IF email = <<>> \/ ~HasDomain(email)
  THEN Raise("ValueError", <<"Email cannot be blank">>, SetAttr(self, "email", email))
  ELSE Return(SetAttr(self, "email", email))

\* @email.setter
email_setter(self, email) ==
  IF email = <<>> THEN Raise("ValueError", <<"Email cannot be blank">>, self)
  ELSE IF ~HasDomain(email)
  THEN Raise("ValueError", <<"Email must be from @acme-machining.com">>, self)
  ELSE Return(SetAttr(self, "email", email))

\* @image.setter
image_setter(self, image) ==
  IF image = <<>> THEN Raise("ValueError", <<"Image cannot be empty.">>, self)
  ELSE Return(SetAttr(self, "image", image))

\* @yearly.setter
yearly_setter(self, yearly) ==
  IF FloatLt(yearly, MinYearly)
  THEN Raise("ValueError", <<"Yearly salary must be over $50,000">>, self)
  ELSE Return(SetAttr(self, "yearly", yearly))

\* @hourly_wage.setter
hourly_wage_setter(self, hourly_wage) ==
  IF FloatLt(hourly_wage, MinHourly) \/ FloatGt(hourly_wage, MaxHourly)
  THEN Raise("ValueError",
             <<"Hourly wage must be between $15 and $99.99 (inclusive)">>, self)
  ELSE Return(SetAttr(self, "hourly_wage", hourly_wage))

\* the class attribute left as it was
NextIdNumber_stuck(counter) == counter

\* Employee.id_number += 1
NextIdNumber(counter) == counter + 1

\* Employee.__init__ with the email assigned before the name
Employee_init_email_first(kind, counter, name, email) ==
  LET self == [kind |-> kind, id_number |-> counter]
      next == NextIdNumber(counter)
  IN CHOOSE out \in
       { [err |-> r3.err, msg |-> r3.msg, obj |-> r3.obj, counter |-> next] :
           r3 \in { IF r2.err # "" THEN r2 ELSE image_setter(r2.obj, IMAGE_PLACEHOLDER) :
                    r2 \in { IF r1.err # "" THEN r1 ELSE name_setter(r1.obj, name) :
                             r1 \in {email_setter(self, email)} } } } : TRUE

\* Employee.__init__ of an instance of class kind; counter is the class
\* attribute Employee.id_number on entry.  The outcome carries, besides err,
\* msg and obj, the class attribute as the call leaves it: it is advanced
\* before any field is validated.  r1, r2, r3 are the outcomes of the three
\* assignments in program order; a setter that raises ends the constructor.
Employee_init(kind, counter, name, email) ==
  LET self == [kind |-> kind, id_number |-> counter]
      next == NextIdNumber(counter)
  IN CHOOSE out \in
       { [err |-> r3.err, msg |-> r3.msg, obj |-> r3.obj, counter |-> next] :
           r3 \in { IF r2.err # "" THEN r2 ELSE image_setter(r2.obj, IMAGE_PLACEHOLDER) :
                    r2 \in { IF r1.err # "" THEN r1 ELSE email_setter(r1.obj, email) :
                             r1 \in {name_setter(self, name)} } } } : TRUE

\* Salaried.__init__: b is the outcome of super().__init__, r of the body
Salaried_init(kind, counter, name, email, yearly) ==
  CHOOSE out \in UNION
    { { [err |-> r.err, msg |-> r.msg, obj |-> r.obj, counter |-> b.counter] :
          r \in {IF b.err # "" THEN b ELSE yearly_setter(b.obj, yearly)} } :
        b \in {Employee_init(kind, counter, name, email)} } : TRUE

\* Hourly.__init__
Hourly_init(kind, counter, name, email, hourly_wage) ==
  CHOOSE out \in UNION
    { { [err |-> r.err, msg |-> r.msg, obj |-> r.obj, counter |-> b.counter] :
          r \in {IF b.err # "" THEN b ELSE hourly_wage_setter(b.obj, hourly_wage)} } :
        b \in {Employee_init(kind, counter, name, email)} } : TRUE

\* Executive.__init__
Executive_init(counter, name, email, yearly, role) ==
  CHOOSE out \in UNION
    { { [err |-> r.err, msg |-> r.msg, obj |-> r.obj, counter |-> b.counter] :
          r \in {IF b.err # "" THEN b
                 ELSE IF role \notin EnumValues(Role)
                 THEN Raise("InvalidRoleException",
                            <<ToString(role), " is not a valid role.">>, b.obj)
                 ELSE Return(SetAttr(b.obj, "role", EnumName(Role, role)))} } :
        b \in {Salaried_init("Executive", counter, name, email, yearly)} } : TRUE

\* Manager.__init__
Manager_init(counter, name, email, yearly, department) ==
  CHOOSE out \in UNION
    { { [err |-> r.err, msg |-> r.msg, obj |-> r.obj, counter |-> b.counter] :
          r \in {IF b.err # "" THEN b
                 ELSE IF department \notin EnumValues(Department)
                 THEN Raise("InvalidDepartmentException",
                            <<ToString(department), " is not a valid department.">>,
                            b.obj)
                 ELSE Return(SetAttr(b.obj, "department",
                                     EnumName(Department, department)))} } :
        b \in {Salaried_init("Manager", counter, name, email, yearly)} } : TRUE

\* Permanent.__init__
Permanent_init(counter, name, email, hourly_wage, hired_date) ==
  CHOOSE out \in UNION
    { { [err |-> r.err, msg |-> r.msg, obj |-> r.obj, counter |-> b.counter] :
          r \in {IF b.err # "" THEN b
                 ELSE Return(SetAttr(b.obj, "hired_date", hired_date))} } :
        b \in {Hourly_init("Permanent", counter, name, email, hourly_wage)} } : TRUE

\* Temporary.__init__
Temporary_init(counter, name, email, hourly_wage, last_day) ==
  CHOOSE out \in UNION
    { { [err |-> r.err, msg |-> r.msg, obj |-> r.obj, counter |-> b.counter] :
          r \in {IF b.err # "" THEN b
                 ELSE Return(SetAttr(b.obj, "last_day", last_day))} } :
        b \in {Hourly_init("Temporary", counter, name, email, hourly_wage)} } : TRUE

isinstance_Salaried(e) == e.kind \in {"Executive", "Manager"}

\* Employee.__repr__: f"{self.name}, {self.email}, {self.image}"
Employee_repr(e) == e.name \o <<",", " ">> \o e.email \o <<",", " ">> \o e.image

\* Salaried.__repr__: f"{base_repr}, {self.yearly}"
Salaried_repr(e) == Employee_repr(e) \o <<",", " ", StrFloat(e.yearly)>>

\* Hourly.__repr__: f"{base_repr},{self.hourly_wage}"
Hourly_repr(e) == Employee_repr(e) \o <<",", StrFloat(e.hourly_wage)>>

\* __repr__ of the four leaf classes
repr(e) ==
  CASE e.kind = "Executive" -> Salaried_repr(e) \o <<",", e.role>>
    [] e.kind = "Manager"   -> Salaried_repr(e) \o <<",", e.department>>
    [] e.kind = "Permanent" -> Hourly_repr(e) \o <<",">> \o e.hired_date
    [] e.kind = "Temporary" -> Hourly_repr(e) \o <<",", " ">> \o e.last_day

\* ------------------------------------------------------------------ csv
\* csv.reader on one line, default dialect (delimiter ',', quotechar '"',
\* doublequote, no skipinitialspace, not strict).  st is the parser state:
\* "start" (start of a field), "field" (in an unquoted field), "quoted" (in a
\* quoted field), "qq" (just saw a quote inside a quoted field).
RECURSIVE CsvFields(_, _, _, _)
CsvFields(s, st, cur, row) ==
  IF s = <<>> THEN Append(row, cur)
  ELSE LET c == Head(s)
           rest == Tail(s)
       IN CASE st = "start" ->
                 IF c = "," THEN CsvFields(rest, "start", <<>>, Append(row, cur))
                 ELSE IF c = "\"" THEN CsvFields(rest, "quoted", cur, row)
                 ELSE CsvFields(rest, "field", Append(cur, c), row)
            [] st = "field" ->
                 IF c = "," THEN CsvFields(rest, "start", <<>>, Append(row, cur))
                 ELSE CsvFields(rest, "field", Append(cur, c), row)
            [] st = "quoted" ->
                 IF c = "\"" THEN CsvFields(rest, "qq", cur, row)
                 ELSE CsvFields(rest, "quoted", Append(cur, c), row)
            [] st = "qq" ->
                 IF c = "\"" THEN CsvFields(rest, "quoted", Append(cur, c), row)
                 ELSE IF c = "," THEN CsvFields(rest, "start", <<>>, Append(row, cur))
                 ELSE CsvFields(rest, "field", Append(cur, c), row)

\* one row of the reader: a blank line is the empty row
CsvRow(line) == IF line = <<>> THEN <<>> ELSE CsvFields(line, "start", <<>>, <<>>)

\* ------------------------------------------------------------------ gui.py
VARIABLES
  pc,             \* "start": MainWindow.__init__ has set _data = [] and is about
                  \* to call load_file; "running": the window is up; "exited":
                  \* __init__ raised and main() ended with the exception
  Employee_id,    \* the class attribute Employee.id_number
  heap,           \* the Employee objects alive, in order of construction
  data,           \* MainWindow._data: references (indices) into heap
  file,           \* the lines of ./employee.data
  openFiles,      \* file objects on ./employee.data that are still open
  events,         \* update_employee calls and failed writes so far
  last            \* what the last operation did (history, for the properties)

vars == <<pc, Employee_id, heap, data, file, openFiles, events, last>>

\* one iteration of the loop of load_file on row, from loop state st =
\* [data, heap, counter, employee, err]; employee is the local variable (0 while
\* unbound).  The result is the loop state after the iteration and the entry
\* logged for the row.
LoadRow(row, st) ==
  LET entry == [fields |-> row, err |-> "", msg |-> <<>>, constructed |-> "none",
                before |-> st.counter, after |-> st.counter, appended |-> 0]
      Fail(e) == [st |-> [st EXCEPT !.err = e], entry |-> [entry EXCEPT !.err = e]]
      \* print(employee); self._data.append(employee)
      AppendEmployee(s, en) ==
        IF s.employee = 0
        THEN [st |-> [s EXCEPT !.err = "UnboundLocalError"],
              entry |-> [en EXCEPT !.err = "UnboundLocalError"]]
        ELSE [st |-> [s EXCEPT !.data = Append(s.data, s.employee)],
              entry |-> [en EXCEPT !.appended = s.employee]]
      \* employee = <the constructor call>, then the append; r is what the call did
      Construct(call) ==
        CHOOSE res \in
          { IF r.err # ""
            THEN [st |-> [st EXCEPT !.err = r.err, !.counter = r.counter],
                  entry |-> [entry EXCEPT !.err = r.err, !.msg = r.msg,
                                          !.constructed = "failed",
                                          !.after = r.counter]]
            ELSE AppendEmployee(
                   [st EXCEPT !.heap = Append(st.heap, r.obj), !.counter = r.counter,
                              !.employee = Len(st.heap) + 1],
                   [entry EXCEPT !.constructed = "ok", !.after = r.counter]) :
            r \in {call} } : TRUE
  IN IF Len(row) < 4 THEN Fail("IndexError")
     ELSE LET type  == row[1]
              name  == row[2]
              email == row[3]
          IN IF type \in {<<"Executive">>, <<"Manager">>, <<"Temp">>, <<"Permanent">>}
             THEN IF Len(row) < 5 THEN Fail("IndexError")
                  ELSE IF ~ParseFloat(row[5]).ok THEN Fail("ValueError")
                  ELSE IF Len(row) < 6 THEN Fail("IndexError")
                  ELSE LET amount == ParseFloat(row[5]).val
                       IN CASE type = <<"Executive">> ->
                                 IF ~ParseInt(row[6]).ok THEN Fail("ValueError")
                                 ELSE Construct(Executive_init(st.counter, name, email,
                                                  amount, ParseInt(row[6]).val))
                            [] type = <<"Manager">> ->
                                 IF ~ParseInt(row[6]).ok THEN Fail("ValueError")
                                 ELSE Construct(Manager_init(st.counter, name, email,
                                                  amount, ParseInt(row[6]).val))
                            [] type = <<"Temp">> ->
                                 Construct(Temporary_init(st.counter, name, email,
                                             amount, row[6]))
                            [] type = <<"Permanent">> ->
                                 Construct(Permanent_init(st.counter, name, email,
                                             amount, row[6]))
             ELSE AppendEmployee(st, entry)

\* for row in reader: the loop stops at the first iteration that raises
RECURSIVE LoadRows(_, _, _)
LoadRows(lines, st, log) ==
  IF lines = <<>> \/ st.err # "" THEN [st |-> st, log |-> log]
  ELSE CHOOSE end \in { LoadRows(Tail(lines), r.st, Append(log, r.entry)) :
                           r \in {LoadRow(CsvRow(Head(lines)), st)} } : TRUE

\* the body of load_file: with open(...) as datafile: the loop.  The file is
\* opened once and the with statement closes it however the loop ends.  The
\* result is the loop state at the end and the history record of the call.
LoadFile ==
  CHOOSE call \in
    { [st |-> r.st, opened |-> 1, closed |-> 1,
       last |-> [op |-> "load", err |-> r.st.err, log |-> r.log, data0 |-> data,
                 lines |-> file, opened |-> 1]] :
      r \in {LoadRows(file, [data |-> data, heap |-> heap, counter |-> Employee_id,
                             employee |-> 0, err |-> ""], <<>>)} } : TRUE

\* MainWindow.__init__: self._data = []; self.load_file().  An exception of
\* load_file leaves __init__ and then main(): the process ends, and the window,
\* its _data and the employees end with it.
MainWindow_init ==
  /\ pc = "start"
  /\ \E r \in {LoadFile} :
        /\ last' = r.last
        /\ openFiles' = (openFiles + r.opened) - r.closed
        /\ IF r.st.err = ""
           THEN /\ pc' = "running"
                /\ data' = r.st.data
                /\ heap' = r.st.heap
                /\ Employee_id' = r.st.counter
           ELSE /\ pc' = "exited"
                /\ data' = <<>>
                /\ heap' = <<>>
                /\ Employee_id' = 0
  /\ UNCHANGED <<file, events>>

\* File > Load HR Data: an exception of load_file leaves the slot; the window
\* and its _data stay as load_file left them
load_file ==
  /\ pc = "running"
  /\ Len(data) + Len(file) <= MaxRoster
  /\ \E r \in {LoadFile} :
        /\ last' = r.last
        /\ openFiles' = (openFiles + r.opened) - r.closed
        /\ data' = r.st.data
        /\ heap' = r.st.heap
        /\ Employee_id' = r.st.counter
  /\ UNCHANGED <<pc, file, events>>

\* the line save_file writes for employee e (without the newline)
SaveLine(e) == <<e.kind, ",">> \o repr(e)

\* File > Save HR Data.  open(..., "w") truncates the file; the file object is
\* never closed by save_file: when the loop ends normally the local variable is
\* the last reference and the interpreter closes (and flushes) the object; when
\* write raises (ioError at line k), the frame of the traceback keeps the
\* object, still open, and the lines before k are what was written.
save_file ==
  /\ pc = "running"
  /\ \E k \in 0..Len(data) :
       LET lines == [i \in 1..Len(data) |-> SaveLine(heap[data[i]])]
       IN IF k = 0
          THEN /\ file' = lines
               /\ openFiles' = openFiles
               /\ events' = events
               /\ last' = [op |-> "save", err |-> "", opened |-> 1]
          ELSE /\ events < MaxEvents
               /\ file' = SubSeq(lines, 1, k - 1)
               /\ openFiles' = openFiles + 1
               /\ events' = events + 1
               /\ last' = [op |-> "save", err |-> "OSError", opened |-> 1]
  /\ UNCHANGED <<pc, Employee_id, heap, data>>

\* what the user can have typed into the four line edits of the form when
\* Update is pressed
Typed(name, email, image, pay) ==
  [name |-> name, email |-> email, image |-> image, pay |-> pay]

FormTexts ==
  { Typed(<<>>, <<"b", "D">>, <<"i">>, <<"nan">>),
    Typed(<<"a", ",", "b">>, <<"b">>, <<"i">>, <<"x">>),
    Typed(<<"b">>, <<"b", "D">>, <<>>, <<"14.99">>),
    Typed(<<"b">>, <<"b", "D">>, <<"i">>, <<"99.99">>),
    Typed(<<"a", ",", "b">>, <<"a", "D">>, <<"p">>, <<"50000">>),
    Typed(<<"a">>, <<"a", "D">>, <<"p">>, <<"100.0">>),
    Typed(<<"a">>, <<"a", "D">>, <<"p">>, <<"49999.99">>) }

\* the record of one property assignment: the object before and after it
SetterCall(attr, value, before, r) ==
  [attr |-> attr, value |-> value, err |-> r.err, before |-> before, after |-> r.obj]

\* EmployeeForm.update_employee on employee e: name, email and image are
\* assigned in turn inside one try block; the first ValueError ends the block.
\* The result is the sequence of assignments made.
EmployeeForm_update(e, name, email, image) ==
  LET r1 == name_setter(e, name)
      r2 == email_setter(r1.obj, email)
      r3 == image_setter(r2.obj, image)
      c1 == SetterCall("name", name, e, r1)
      c2 == SetterCall("email", email, r1.obj, r2)
      c3 == SetterCall("image", image, r2.obj, r3)
  IN IF r1.err # "" THEN <<c1>>
     ELSE IF r2.err # "" THEN <<c1, c2>>
     ELSE <<c1, c2, c3>>

\* SalariedForm.update_employee and HourlyForm.update_employee: the base
\* update (which swallows its own ValueError), then the pay field is assigned
\* float(text of the pay edit); a ValueError of float() or of the setter is
\* swallowed.
PayForm_update(e, name, email, image, pay) ==
  LET base == EmployeeForm_update(e, name, email, image)
      e1   == base[Len(base)].after
      amt  == ParseFloat(pay)
      attr == IF isinstance_Salaried(e) THEN "yearly" ELSE "hourly_wage"
      r    == IF isinstance_Salaried(e) THEN yearly_setter(e1, amt.val)
              ELSE hourly_wage_setter(e1, amt.val)
  IN IF ~amt.ok THEN base
     ELSE Append(base, SetterCall(attr, amt.val, e1, r))

\* Edit > Edit current employee on row index of the table, then Update
update_employee ==
  /\ pc = "running"
  /\ events < MaxEvents
  /\ \E index \in 1..Len(data), t \in FormTexts :
       \E calls \in {PayForm_update(heap[data[index]], t.name, t.email, t.image, t.pay)} :
          /\ heap' = [heap EXCEPT ![data[index]] = calls[Len(calls)].after]
          /\ last' = [op |-> "update", ref |-> data[index], calls |-> calls]
  /\ events' = events + 1
  /\ UNCHANGED <<pc, Employee_id, data, file, openFiles>>

\* ------------------------------------------------------- the data file
\* a line of the file from its fields
RECURSIVE Join(_)
Join(fields) ==
  IF Len(fields) = 1 THEN fields[1]
  ELSE fields[1] \o <<",">> \o Join(Tail(fields))

\* lines the data file can hold when the session starts
SampleLines ==
  { Join(<<<<"Executive">>, <<"a">>, <<"a", "D">>, <<"p">>, <<"50000.0">>, <<"1">>>>),
    Join(<<<<"Manager">>, <<"a">>, <<"a", "D">>, <<"p">>, <<"50000">>, <<"4">>>>),
    Join(<<<<"Permanent">>, <<"a">>, <<"a", "D">>, <<"p">>, <<"15.0">>, <<"d">>>>),
    Join(<<<<"Temp">>, <<"a">>, <<"a", "D">>, <<"p">>, <<"99.99">>, <<"d">>>>),
    Join(<<<<"Permanent">>, <<"a">>, <<"a", "D">>, <<"p">>, <<"nan">>, <<"d">>>>),
    Join(<<<<"Temp">>, <<"a">>, <<"a", "D">>, <<"p">>, <<"100.0">>, <<"d">>>>),
    Join(<<<<"Permanent">>, <<"a">>, <<"a", "D">>, <<"p">>, <<"14.99">>, <<"d">>>>),
    Join(<<<<"Manager">>, <<"a">>, <<"a", "D">>, <<"p">>, <<"50000.0">>, <<"6">>>>),
    Join(<<<<"Executive">>, <<>>, <<"a", "D">>, <<"p">>, <<"50000.0">>, <<"1">>>>),
    Join(<<<<"Manager">>, <<"a">>, <<"a">>, <<"p">>, <<"50000.0">>, <<"1">>>>),
    Join(<<<<"Executive">>, <<"a">>, <<"a", "D">>, <<"p">>, <<"49999.99">>, <<"1">>>>),
    Join(<<<<"Executive">>, <<"a">>, <<"a", "D">>, <<"p">>, <<"50000.0">>, <<"4">>>>),
    Join(<<<<"Temp">>, <<"a">>, <<>>, <<"p">>, <<"99.99">>, <<"d">>>>),
    Join(<<<<"Executive">>, <<>>, <<"a">>, <<"p">>, <<"49999.99">>, <<"4">>>>),
    Join(<<<<"Manager">>, <<"a">>, <<"a">>, <<"p">>, <<"49999.99">>, <<"6">>>>),
    Join(<<<<"Manager">>, <<"a">>, <<"a", "D">>, <<"p">>, <<"49999.99">>, <<"6">>>>),
    Join(<<<<"Executive">>, <<"a">>, <<"a", "D">>, <<"p">>, <<"nan">>, <<"4">>>>),
    Join(<<<<"Temp">>, <<>>, <<"a", "D">>, <<"p">>, <<"100.0">>, <<"d">>>>),
    Join(<<<<"Permanent">>, <<"a">>, <<>>, <<"p">>, <<"14.99">>, <<"d">>>>),
    Join(<<<<"Permanent">>, <<"a">>, <<"a", "D">>, <<"p">>, <<"15.0">>>>),
    Join(<<<<"Permanent">>, <<"a">>, <<"a", "D">>, <<"p">>, <<"15.0">>, <<"d">>, <<"d">>>>),
    Join(<<<<"Intern">>, <<"a">>, <<"a", "D">>, <<"p">>, <<"15.0">>, <<"d">>>>),
    Join(<<<<"Permanent">>, <<"\"", "a", ",", "b", "\"">>, <<"a">>, <<"p">>,
           <<"15.0">>, <<"d">>>>),
    <<>> }

\* the files of at most MaxLines sample lines
InitFiles == UNION { [1..n -> SampleLines] : n \in 0..MaxLines }

Init ==
  /\ pc = "start"
  /\ Employee_id = 0
  /\ heap = <<>>
  /\ data = <<>>
  /\ file \in InitFiles
  /\ openFiles = 0
  /\ events = 0
  /\ last = [op |-> "none"]

Next ==
  \/ MainWindow_init
  \/ load_file
  \/ save_file
  \/ update_employee

Spec == Init /\ [][Next]_vars

\* ---------------------------------------------------------------- properties
LoadLog == IF last.op = "load" THEN last.log ELSE <<>>
UpdateCalls == IF last.op = "update" THEN last.calls ELSE <<>>

\* C1: a failed construction leaves the identity counter as it found it, so the
\* identities of the records constructed successfully are consecutive.
C1_FailedConstructionKeepsCounter ==
  /\ \A i \in DOMAIN LoadLog :
       LoadLog[i].constructed = "failed" => LoadLog[i].after = LoadLog[i].before
  /\ \A h \in 1..(Len(heap) - 1) : heap[h + 1].id_number = heap[h].id_number + 1

\* the amount field and the category-specific field of a record
Amount(e) == IF isinstance_Salaried(e) THEN e.yearly ELSE e.hourly_wage

CategoryField(e) ==
  CASE e.kind = "Executive" -> <<e.role>>
    [] e.kind = "Manager"   -> <<e.department>>
    [] e.kind = "Permanent" -> e.hired_date
    [] e.kind = "Temporary" -> e.last_day

SameFields(a, b) ==
  /\ a.kind = b.kind
  /\ a.name = b.name
  /\ a.email = b.email
  /\ FloatEq(Amount(a), Amount(b))
  /\ CategoryField(a) = CategoryField(b)

\* C2: a load of the lines save wrote for the roster succeeds and constructs,
\* line by line, a record of the same variant with the same name, email,
\* amount and category-specific field.
C2_RoundTrip ==
  ( /\ last.op = "load"
    /\ last.data0 # <<>>
    /\ last.lines = [i \in 1..Len(last.data0) |-> SaveLine(heap[last.data0[i]])] )
  => /\ last.err = ""
     /\ \A i \in 1..Len(last.data0) :
          /\ LoadLog[i].constructed = "ok"
          /\ SameFields(heap[LoadLog[i].appended], heap[last.data0[i]])

\* C3: a load that fails leaves the roster as it was before the load.
C3_FailedLoadKeepsRoster ==
  (last.op = "load" /\ last.err # "") => data = last.data0

\* a row whose tag load_file does not know or whose field count is not 6
Malformed(row) ==
  \/ Len(row) # 6
  \/ row[1] \notin {<<"Executive">>, <<"Manager">>, <<"Temp">>, <<"Permanent">>}

\* C4: a line with an unrecognized tag or a wrong field count fails the load
\* at that line, wherever the line is, and adds no record to the roster.
C4_MalformedLineRejected ==
  \A i \in DOMAIN LoadLog :
    Malformed(LoadLog[i].fields) => LoadLog[i].err # "" /\ LoadLog[i].appended = 0

\* the values the validator of attribute attr rejects: an empty name, an
\* email that is empty or lacks the domain, an empty image, a yearly amount
\* below 50000, an hourly rate below 15 or above 99.99
Rejects(attr, value) ==
  CASE attr = "name"        -> value = <<>>
    [] attr = "email"       -> value = <<>> \/ ~HasDomain(value)
    [] attr = "image"       -> value = <<>>
    [] attr = "yearly"      -> FloatLt(value, MinYearly)
    [] attr = "hourly_wage" -> FloatLt(value, MinHourly) \/ FloatGt(value, MaxHourly)

\* C5: an assignment of a value the setter's validator rejects raises
\* ValueError, and an assignment that raises leaves the whole record (that
\* field, every other field, the identity) as it was.
C5_RejectedAssignmentKeepsRecord ==
  \A i \in DOMAIN UpdateCalls :
    LET c == UpdateCalls[i]
    IN /\ Rejects(c.attr, c.value) => c.err = "ValueError"
       /\ c.err # "" => c.after = c.before

\* an update in which a text field and the pay field were both rejected, after
\* an earlier field of the same record was changed
C5_Witness ==
  /\ \E i \in DOMAIN UpdateCalls :
       UpdateCalls[i].attr \in {"email", "image"} /\ UpdateCalls[i].err # ""
  /\ \E i \in DOMAIN UpdateCalls :
       UpdateCalls[i].attr \in {"yearly", "hourly_wage"} /\ UpdateCalls[i].err # ""
  /\ UpdateCalls[1].after # UpdateCalls[1].before

\* C6: distinct records have distinct identities, a record constructed later
\* has a greater identity than every earlier one, and the identity of a
\* record never changes.
C6_IdentityUniqueOrderedStable ==
  /\ [](\A g, h \in DOMAIN heap : g < h => heap[g].id_number < heap[h].id_number)
  /\ [][\A h \in DOMAIN heap :
          h \in DOMAIN heap' /\ heap'[h].id_number = heap[h].id_number]_vars

\* records from two loads, after a form update
C6_Witness ==
  /\ Len(heap) >= 3
  /\ \E h \in DOMAIN heap : heap[h].name = <<"b">>
  /\ last.op = "load"
  /\ last.data0 # <<>>

\* the field rules of a record
ValidRecord(e) ==
  /\ e.name # <<>>
  /\ e.email # <<>>
  /\ HasDomain(e.email)
  /\ e.image # <<>>
  /\ IF isinstance_Salaried(e) THEN FloatGe(e.yearly, MinYearly)
     ELSE FloatGe(e.hourly_wage, MinHourly) /\ FloatLe(e.hourly_wage, MaxHourly)

\* C7: every record of the roster has a non-empty name, an email with the
\* domain, a non-empty image and an amount inside its category's range.
C7_RosterRecordsValid ==
  \A i \in DOMAIN data : ValidRecord(heap[data[i]])

\* 15 <= rate <= 99.99
RateInRange(rate) == FloatGe(rate, MinHourly) /\ FloatLe(rate, MaxHourly)

\* a row on which load_file calls the Permanent or Temporary constructor with a
\* valid name and email
HourlyConstruction(row) ==
  /\ Len(row) >= 6
  /\ row[1] \in {<<"Temp">>, <<"Permanent">>}
  /\ ParseFloat(row[5]).ok
  /\ row[2] # <<>>
  /\ row[3] # <<>>
  /\ HasDomain(row[3])

\* C8: constructing an Hourly-derived record, or assigning its hourly rate,
\* succeeds exactly when 15 <= rate <= 99.99.
C8_HourlyRateRange ==
  /\ \A i \in DOMAIN LoadLog :
       HourlyConstruction(LoadLog[i].fields) =>
         (LoadLog[i].constructed = "ok" <=> RateInRange(ParseFloat(LoadLog[i].fields[5]).val))
  /\ \A i \in DOMAIN UpdateCalls :
       UpdateCalls[i].attr = "hourly_wage" =>
         (UpdateCalls[i].err = "" <=> RateInRange(UpdateCalls[i].value))

\* C9: after a successful load the roster is exactly the records that load
\* added for the lines of the file, in file order: as many as the file has
\* lines, and nothing from before the load.
C9_RosterIsTheFile ==
  (last.op = "load" /\ last.err = "") =>
    /\ Len(data) = Len(last.lines)
    /\ data = [i \in 1..Len(LoadLog) |-> LoadLog[i].appended]

\* C10: a load or a save opens the file once and no file object is open when
\* the operation has ended, however it ended.
C10_FileReleased ==
  last.op \in {"load", "save"} => last.opened = 1 /\ openFiles = 0

\* the order of the checks: name, email, category-specific numeric field,
\* enumerated code
CheckOrder == <<"name", "email", "amount", "code">>

\* the inputs of the constructor call made for a row, by field, that the
\* field's check rejects (an hourly record has no enumerated code)
InvalidInputs(fields) ==
  LET type   == fields[1]
      amount == ParseFloat(fields[5]).val
  IN {f \in {"name"} : Rejects("name", fields[2])}
     \cup {f \in {"email"} : Rejects("email", fields[3])}
     \cup {f \in {"amount"} :
             IF type \in {<<"Executive">>, <<"Manager">>}
             THEN Rejects("yearly", amount)
             ELSE Rejects("hourly_wage", amount)}
     \cup {f \in {"code"} :
             \/ type = <<"Executive">> /\ ParseInt(fields[6]).val \notin EnumValues(Role)
             \/ type = <<"Manager">> /\ ParseInt(fields[6]).val \notin EnumValues(Department)}

\* the earliest field of the check order among those of bad
EarliestInvalid(bad) ==
  CheckOrder[CHOOSE i \in DOMAIN CheckOrder :
               CheckOrder[i] \in bad /\ \A j \in 1..(i - 1) : CheckOrder[j] \notin bad]

\* the field whose check raises the exception of a log entry
FailedField(e) ==
  CASE e.err = "ValueError" /\ e.msg = <<"Name cannot be blank">> -> "name"
    [] e.err = "ValueError"
       /\ e.msg \in {<<"Email cannot be blank">>,
                     <<"Email must be from @acme-machining.com">>} -> "email"
    [] e.err = "ValueError"
       /\ e.msg \in {<<"Yearly salary must be over $50,000">>,
                     <<"Hourly wage must be between $15 and $99.99 (inclusive)">>}
         -> "amount"
    [] e.err \in {"InvalidRoleException", "InvalidDepartmentException"} -> "code"
    [] OTHER -> "none"

\* C11: every variant constructor checks name, email, the category-specific
\* numeric field and the enumerated code in that order and stops at the first
\* check that fails: a constructor call with one or more inputs its checks
\* reject raises the exception of the earliest rejected field in that order,
\* and no record comes out of it.
C11_FirstFailingCheckInOrder ==
  \A i \in DOMAIN LoadLog :
    LET e   == LoadLog[i]
        bad == IF e.constructed = "none" THEN {} ELSE InvalidInputs(e.fields)
    IN bad # {} =>
         /\ e.constructed = "failed"
         /\ e.appended = 0
         /\ FailedField(e) = EarliestInvalid(bad)

\* a constructor call with a valid name and two or more other inputs rejected
\* has raised
C11_Witness ==
  \E i \in DOMAIN LoadLog :
    /\ LoadLog[i].constructed = "failed"
    /\ "name" \notin InvalidInputs(LoadLog[i].fields)
    /\ Cardinality(InvalidInputs(LoadLog[i].fields)) >= 2

====
